---- MODULE Spec2Model ----
(***************************************************************************)
(* Model of start.py: the handler of the start button and                  *)
(* process_url_to_text, the pipeline download -> language sample -> split  *)
(* -> transcription loop -> final text.                                    *)
(*                                                                         *)
(* Strings are sequences of one-character strings.  The external tools     *)
(* (yt-dlp, ffmpeg, the recognizer, langdetect) are the environment: each  *)
(* call's result is chosen with \E.  Three history variables record what   *)
(* the tools were asked and answered: `calls` (the stages before the loop),*)
(* `attempts` (the recognizer calls for the current segment) and           *)
(* `outcomes` (how each segment ended).  The Streamlit widgets and log()   *)
(* are taken not to raise.                                                 *)
(***************************************************************************)
EXTENDS Integers, Sequences, FiniteSets, TLC

\* ---------------------------------------------------------------- bounds
\* the largest number of segment files the splitting tool leaves
MaxParts == 3
\* the largest number of .wav files the download tool leaves
MaxWavs == 2

\* ------------------------------------------------- values the inputs take
SP == " "
NL == "\n"
TAB == "\t"
\* what the user may have typed in the URL box
UrlInputs == { <<>>, <<SP>>, <<"u", SP>> }
\* texts the recognizer returns for a segment
Texts == { <<"a">>, <<"b", "c">> }
\* texts the recognizer returns for the sample (the code tests it for blank)
SampleTexts == { <<>>, <<SP>>, <<"s">> }
\* codes langdetect returns
Codes == { "en", "ar", "fr" }
\* "no language argument" of recognize_google
NoHint == "-"

\* ------------------------------------------------------------ str helpers
IsSpace(c) == c \in {SP, NL, TAB}

RECURSIVE LStrip(_)
LStrip(s) == IF s # <<>> /\ IsSpace(Head(s)) THEN LStrip(Tail(s)) ELSE s

RECURSIVE RStrip(_)
RStrip(s) ==
    IF s # <<>> /\ IsSpace(s[Len(s)]) THEN RStrip(SubSeq(s, 1, Len(s) - 1)) ELSE s

\* str.strip()
Strip(s) == RStrip(LStrip(s))

\* ------------------------------------------------- segment file names
\* character codes: only their order matters to sorted()
ChDot == 46
ChZero == 48

RECURSIVE Digits(_)
\* the decimal digits of n, most significant first, as character codes
Digits(n) == IF n < 10 THEN <<ChZero + n>> ELSE Digits(n \div 10) \o <<ChZero + (n % 10)>>

RECURSIVE ZeroPad(_, _)
ZeroPad(d, w) == IF Len(d) >= w THEN d ELSE ZeroPad(<<ChZero>> \o d, w)

\* the output template part_%03d.wav: the digits and the dot that follows them
\* (the prefix "part_" and the suffix "wav" are the same in every name)
PadWidth == 3
PartName(k) == ZeroPad(Digits(k), PadWidth) \o <<ChDot>>

\* str comparison, character by character
LexLess(a, b) ==
    \E i \in 1 .. Len(b) :
        /\ i <= Len(a) + 1
        /\ \A j \in 1 .. (i - 1) : a[j] = b[j]
        /\ (i = Len(a) + 1 \/ a[i] < b[i])

RECURSIVE SortedNames(_)
\* sorted(split_dir.glob("*.wav"))
SortedNames(S) ==
    IF S = {} THEN <<>>
    ELSE LET m == CHOOSE x \in S : \A y \in S \ {x} : LexLess(x, y)
         IN  <<m>> \o SortedNames(S \ {m})

\* the files ffmpeg's segment muxer leaves when it cuts n segments
SplitOutput(n) == { PartName(k) : k \in 0 .. (n - 1) }

\* ------------------------------------------------------- process runner
\* what running a command can do: exit with a code, or fail to start
\* (stdout and stderr of the finished process, msg = str(e) of the exception)
\* texts are sequences of characters; None is a value no text equals
NoneVal == << "<None>" >>
OutText == << "o", "u", "t" >>
ErrText == << "e", "r", "r" >>
NotFound == << "n", "o", "t", SP, "f", "o", "u", "n", "d" >>
ProcOutcomes ==
    { [raised |-> FALSE, code |-> 0, stdout |-> OutText, stderr |-> <<>>, msg |-> <<>>],
      [raised |-> FALSE, code |-> 2, stdout |-> NoneVal, stderr |-> ErrText, msg |-> <<>>],
      [raised |-> TRUE,  code |-> 0, stdout |-> <<>>, stderr |-> <<>>, msg |-> NotFound] }

\* mutant: the except branch returns rc 0
RunCmdCapture_ZeroOnError(o) == IF o.raised THEN 0 ELSE o.code

\* run_cmd_capture: the rc it returns
RunCmdCapture(o) == IF o.raised THEN 1 ELSE o.code

\* x or ""
OrEmpty(x) == IF x = NoneVal THEN <<>> ELSE x

\* run_cmd_capture: the stdout it returns
RunCmdOut(o) == IF o.raised THEN <<>> ELSE OrEmpty(o.stdout)

\* run_cmd_capture: the stderr it returns
RunCmdErr(o) == IF o.raised THEN o.msg ELSE OrEmpty(o.stderr)

\* rc, out, err = run_cmd_capture(cmd)
RunResult(o) == [rc |-> RunCmdCapture(o), out |-> RunCmdOut(o), err |-> RunCmdErr(o)]

\* ------------------------------------------------------------------ state
VARIABLES
    pc,               \* the statement the run is at
    url_input,        \* the text of the URL box
    url,              \* the argument of process_url_to_text
    bin_yt_dlp,       \* shutil.which found yt-dlp
    bin_ffmpeg,       \* shutil.which found ffmpeg
    libs_ok,          \* speech_recognition and langdetect import
    auto_remove_tmp,  \* the sidebar checkbox
    base_tmp,         \* the TemporaryDirectory exists
    tmp_wavs,         \* number of .wav files in base_tmp/download
    split_dir,        \* names of the .wav files in base_tmp/split
    cwd_files,        \* which of the files title_base.wav / .txt exist in cwd
    detected_lang,
    sample_text,
    split_files,
    total_parts,
    idx,
    parts_processed,
    text_lines,
    failed_parts,
    final_txt,        \* the contents written to title_base.txt
    status,           \* the st.error / st.success message that ends the run
    shown_failed,     \* the names listed under "failed parts"
    progress_log,     \* the progress_bar.progress calls of the loop
    progress_bar,     \* the value the bar shows
    tmp_notice,       \* what the run says about the temporary directory at its end
    run_result,       \* rc, out, err of the last run_cmd_capture
    proc,             \* history: what the last command run did
    fn_name,          \* (function checks) the function applied
    fn_arg,           \* (function checks) its argument
    fn_res,           \* (function checks) its result
    calls,            \* history: the tool calls before the loop, with their results
    attempts,         \* history: the recognize_google calls for the current segment
    outcomes          \* history: per segment, how its iteration ended

vars ==
    << pc, url_input, url, bin_yt_dlp, bin_ffmpeg, libs_ok, auto_remove_tmp, base_tmp,
       tmp_wavs, split_dir, cwd_files, detected_lang, sample_text, split_files,
       total_parts, idx, parts_processed, text_lines, failed_parts, final_txt, status,
       shown_failed, progress_log, progress_bar, tmp_notice, run_result, proc,
       fn_name, fn_arg, fn_res, calls, attempts, outcomes >>

fnVars == << fn_name, fn_arg, fn_res >>
envVars == << url_input, bin_yt_dlp, bin_ffmpeg, libs_ok, auto_remove_tmp, fnVars >>
runVars == << run_result, proc >>
loopVars == << split_files, total_parts, idx, parts_processed, text_lines, failed_parts >>
outVars == << final_txt, shown_failed, progress_log, progress_bar, tmp_notice >>
histVars == << calls, attempts, outcomes >>

Unset == "unset"

Call(op, hint, ok, out) == [op |-> op, hint |-> hint, ok |-> ok, out |-> out]

\* (function checks) no result yet; the result v of the function
NotApplied == [done |-> FALSE, val |-> <<>>]
Result(v) == [done |-> TRUE, val |-> v]

\* the variables of the function checks, at rest
FnIdle ==
    /\ fn_name = "none"
    /\ fn_arg = <<>>
    /\ fn_res = NotApplied

\* the state of the page before the button is pressed
RunInit ==
    /\ pc = "idle"
    /\ tmp_notice = Unset
    /\ run_result = Unset
    /\ proc = Unset
    /\ url_input \in UrlInputs
    /\ url = <<>>
    /\ bin_yt_dlp \in BOOLEAN
    /\ bin_ffmpeg \in BOOLEAN
    /\ libs_ok \in BOOLEAN
    /\ auto_remove_tmp \in BOOLEAN
    /\ base_tmp = FALSE
    /\ tmp_wavs = 0
    /\ split_dir = {}
    /\ cwd_files = {}
    /\ detected_lang = Unset
    /\ sample_text = <<>>
    /\ split_files = <<>>
    /\ total_parts = 0
    /\ idx = 0
    /\ parts_processed = 0
    /\ text_lines = <<>>
    /\ failed_parts = <<>>
    /\ final_txt = Unset
    /\ status = Unset
    /\ shown_failed = <<>>
    /\ progress_log = <<>>
    /\ progress_bar = 0
    /\ calls = <<>>
    /\ attempts = <<>>
    /\ outcomes = <<>>

Init == RunInit /\ FnIdle

\* leaving the `with tempfile.TemporaryDirectory(...)` block, by return or at its end
ExitWith ==
    /\ base_tmp' = FALSE
    /\ tmp_wavs' = 0
    /\ split_dir' = {}

\* a `return` inside the with block after st.error(msg)
Abort(msg) ==
    /\ status' = msg
    /\ pc' = "done"
    /\ ExitWith

\* ----------------------------------------------------------------- actions
\* mutant: the URL is passed on without strip()
StartButton_NoStrip ==
    /\ pc = "idle"
    /\ url' = url_input
    /\ IF url_input = <<>>
       THEN /\ status' = "no_url"
            /\ pc' = "done"
       ELSE /\ status' = status
            /\ pc' = "check"
    /\ UNCHANGED << envVars, runVars, base_tmp, tmp_wavs, split_dir, cwd_files, detected_lang,
                    sample_text, loopVars, outVars, histVars >>

\* `if start_button:` ... process_url_to_text(url.strip(), ...), up to `if not url`
StartButton ==
    /\ pc = "idle"
    /\ url' = Strip(url_input)
    /\ IF Strip(url_input) = <<>>
       THEN /\ status' = "no_url"
            /\ pc' = "done"
       ELSE /\ status' = status
            /\ pc' = "check"
    /\ UNCHANGED << envVars, runVars, base_tmp, tmp_wavs, split_dir, cwd_files, detected_lang,
                    sample_text, loopVars, outVars, histVars >>

\* the checks of yt-dlp, ffmpeg and the imports, then entering the with block
CheckRequirements ==
    /\ pc = "check"
    /\ IF ~bin_yt_dlp
       THEN /\ status' = "no_yt_dlp"
            /\ pc' = "done"
            /\ base_tmp' = base_tmp
       ELSE IF ~bin_ffmpeg
       THEN /\ status' = "no_ffmpeg"
            /\ pc' = "done"
            /\ base_tmp' = base_tmp
       ELSE IF ~libs_ok
       THEN /\ status' = "no_library"
            /\ pc' = "done"
            /\ base_tmp' = base_tmp
       ELSE /\ status' = status
            /\ pc' = "download"
            /\ base_tmp' = TRUE
    /\ UNCHANGED << envVars, runVars, url, tmp_wavs, split_dir, cwd_files, detected_lang,
                    sample_text, loopVars, outVars, histVars >>

\* mutant: the rc of yt-dlp is not looked at
Download_IgnoresRc ==
    /\ pc = "download"
    /\ \E o \in ProcOutcomes, w \in 0 .. MaxWavs :
        LET rc == RunResult(o).rc IN
        /\ run_result' = RunResult(o)
        /\ proc' = o
        /\ calls' = Append(calls, Call("download", NoHint, rc = 0,
                                       [i \in 1 .. w |-> "wav"]))
        /\ tmp_wavs' = w
        /\ pc' = "find_wav"
        /\ UNCHANGED << status, base_tmp, split_dir >>
    /\ UNCHANGED << envVars, url, cwd_files, detected_lang, sample_text, loopVars,
                    outVars, attempts, outcomes >>

\* rc, out, err = run_cmd_capture(yt_cmd); if rc != 0: ... return
Download ==
    /\ pc = "download"
    /\ \E o \in ProcOutcomes, w \in 0 .. MaxWavs :
        LET rc == RunResult(o).rc IN
        /\ run_result' = RunResult(o)
        /\ proc' = o
        /\ calls' = Append(calls, Call("download", NoHint, rc = 0,
                                       [i \in 1 .. w |-> "wav"]))
        /\ IF rc # 0
           THEN Abort("download_failed")
           ELSE /\ tmp_wavs' = w
                /\ pc' = "find_wav"
                /\ UNCHANGED << status, base_tmp, split_dir >>
    /\ UNCHANGED << envVars, url, cwd_files, detected_lang, sample_text, loopVars,
                    outVars, attempts, outcomes >>

\* mutant: the language sampler is left out
FindWav_SkipsSampler ==
    /\ pc = "find_wav"
    /\ IF tmp_wavs = 0
       THEN /\ Abort("no_wav")
            /\ UNCHANGED << cwd_files, detected_lang >>
       ELSE /\ tmp_wavs' = tmp_wavs - 1
            /\ cwd_files' = cwd_files \cup {"wav"}
            /\ detected_lang' = "en"
            /\ pc' = "split"
            /\ UNCHANGED << status, base_tmp, split_dir >>
    /\ UNCHANGED << envVars, runVars, url, sample_text, loopVars, outVars, histVars >>

\* wav_files = sorted(glob); if not wav_files: return; shutil.move(...);
\* recognizer = sr.Recognizer(); detected_lang = "en"
FindWav ==
    /\ pc = "find_wav"
    /\ IF tmp_wavs = 0
       THEN /\ Abort("no_wav")
            /\ UNCHANGED << cwd_files, detected_lang >>
       ELSE /\ tmp_wavs' = tmp_wavs - 1
            /\ cwd_files' = cwd_files \cup {"wav"}
            /\ detected_lang' = "en"
            /\ pc' = "sample_record"
            /\ UNCHANGED << status, base_tmp, split_dir >>
    /\ UNCHANGED << envVars, runVars, url, sample_text, loopVars, outVars, histVars >>

\* with sr.AudioFile(dst_wav) as src: sample_audio = recognizer.record(src, ...)
\* (an exception here is caught by the outer except: detected_lang = "en")
SampleRecord ==
    /\ pc = "sample_record"
    /\ \E ok \in BOOLEAN :
        /\ calls' = Append(calls, Call("sample_record", NoHint, ok, <<>>))
        /\ IF ok
           THEN /\ pc' = "sample_try1"
                /\ detected_lang' = detected_lang
           ELSE /\ pc' = "split"
                /\ detected_lang' = "en"
    /\ UNCHANGED << envVars, runVars, url, base_tmp, tmp_wavs, split_dir, cwd_files, sample_text,
                    loopVars, outVars, status, attempts, outcomes >>

\* sample_text = recognizer.recognize_google(sample_audio)
SampleTryNoHint ==
    /\ pc = "sample_try1"
    /\ \E ok \in BOOLEAN, t \in SampleTexts :
        /\ calls' = Append(calls, Call("sample_recognize", NoHint, ok,
                                       IF ok THEN t ELSE <<>>))
        /\ IF ok
           THEN /\ sample_text' = t
                /\ pc' = "sample_detect"
           ELSE /\ sample_text' = sample_text
                /\ pc' = "sample_try2"
    /\ UNCHANGED << envVars, runVars, url, base_tmp, tmp_wavs, split_dir, cwd_files,
                    detected_lang, loopVars, outVars, status, attempts, outcomes >>

\* except: sample_text = recognizer.recognize_google(sample_audio, language="ar")
\*         except: sample_text = ""
SampleTryAr ==
    /\ pc = "sample_try2"
    /\ \E ok \in BOOLEAN, t \in SampleTexts :
        /\ calls' = Append(calls, Call("sample_recognize", "ar", ok,
                                       IF ok THEN t ELSE <<>>))
        /\ sample_text' = (IF ok THEN t ELSE <<>>)
        /\ pc' = "sample_detect"
    /\ UNCHANGED << envVars, runVars, url, base_tmp, tmp_wavs, split_dir, cwd_files,
                    detected_lang, loopVars, outVars, status, attempts, outcomes >>

\* mutant: the except of detect() does not set the fallback
LangFromDetect_NoFallback(ok, code) == IF ok THEN code ELSE Unset

\* the language chosen from a non-blank sample text: detect()'s code, "en" if it raises
LangFromDetect(ok, code) == IF ok THEN code ELSE "en"

\* mutant: the sample text is tested without strip()
SampleDetect_NoStrip ==
    /\ pc = "sample_detect"
    /\ IF sample_text # <<>>
       THEN \E ok \in BOOLEAN, code \in Codes :
              /\ calls' = Append(calls, Call("detect", NoHint, ok,
                                             IF ok THEN <<code>> ELSE <<>>))
              /\ detected_lang' = LangFromDetect(ok, code)
       ELSE /\ calls' = calls
            /\ detected_lang' = "en"
    /\ pc' = "split"
    /\ UNCHANGED << envVars, runVars, url, base_tmp, tmp_wavs, split_dir, cwd_files, sample_text,
                    loopVars, outVars, status, attempts, outcomes >>

\* if sample_text.strip(): detected_lang = detect(sample_text) (except: "en")
\* else: detected_lang = "en"
SampleDetect ==
    /\ pc = "sample_detect"
    /\ IF Strip(sample_text) # <<>>
       THEN \E ok \in BOOLEAN, code \in Codes :
              /\ calls' = Append(calls, Call("detect", NoHint, ok,
                                             IF ok THEN <<code>> ELSE <<>>))
              /\ detected_lang' = LangFromDetect(ok, code)
       ELSE /\ calls' = calls
            /\ detected_lang' = "en"
    /\ pc' = "split"
    /\ UNCHANGED << envVars, runVars, url, base_tmp, tmp_wavs, split_dir, cwd_files, sample_text,
                    loopVars, outVars, status, attempts, outcomes >>

\* mutant: the rc of ffmpeg is not looked at
Split_IgnoresRc ==
    /\ pc = "split"
    /\ \E o \in ProcOutcomes, n \in 0 .. MaxParts :
        LET rc == RunResult(o).rc
            files == IF o.raised THEN {} ELSE SplitOutput(n)
        IN
        /\ run_result' = RunResult(o)
        /\ proc' = o
        /\ calls' = Append(calls, Call("split", NoHint, rc = 0, <<>>))
        /\ split_dir' = files
        /\ split_files' = SortedNames(files)
        /\ total_parts' = Cardinality(files)
        /\ text_lines' = <<>>
        /\ failed_parts' = <<>>
        /\ parts_processed' = 0
        /\ idx' = 0
        /\ pc' = "loop"
        /\ UNCHANGED << status, base_tmp, tmp_wavs >>
    /\ UNCHANGED << envVars, url, cwd_files, detected_lang, sample_text, outVars,
                    attempts, outcomes >>

\* rc, out, err = run_cmd_capture(split_cmd); if rc != 0: ... return
\* split_files = sorted(split_dir.glob("*.wav")); total_parts = len(split_files);
\* text_lines = []; failed_parts = []; parts_processed = 0
Split ==
    /\ pc = "split"
    /\ \E o \in ProcOutcomes, n \in 0 .. MaxParts :
        LET rc == RunResult(o).rc
            files == IF o.raised THEN {} ELSE SplitOutput(n)
        IN
        /\ run_result' = RunResult(o)
        /\ proc' = o
        /\ calls' = Append(calls, Call("split", NoHint, rc = 0, <<>>))
        /\ IF rc # 0
           THEN /\ Abort("split_failed")
                /\ UNCHANGED loopVars
           ELSE /\ split_dir' = files
                /\ split_files' = SortedNames(files)
                /\ total_parts' = Cardinality(files)
                /\ text_lines' = <<>>
                /\ failed_parts' = <<>>
                /\ parts_processed' = 0
                /\ idx' = 0
                /\ pc' = "loop"
                /\ UNCHANGED << status, base_tmp, tmp_wavs >>
    /\ UNCHANGED << envVars, url, cwd_files, detected_lang, sample_text, outVars,
                    attempts, outcomes >>

\* mutant: the loop stops at the first failed segment
LoopNext_StopsOnFailure ==
    /\ pc = "loop"
    /\ IF idx < Len(split_files) /\ failed_parts = <<>>
       THEN /\ idx' = idx + 1
            /\ parts_processed' = parts_processed + 1
            /\ pc' = "read"
       ELSE /\ UNCHANGED << idx, parts_processed >>
            /\ pc' = "save"
    /\ attempts' = <<>>
    /\ UNCHANGED << envVars, runVars, url, base_tmp, tmp_wavs, split_dir, cwd_files,
                    detected_lang, sample_text, split_files, total_parts, text_lines,
                    failed_parts, outVars, status, calls, outcomes >>

\* for idx, part in enumerate(split_files, start=1): parts_processed += 1
LoopNext ==
    /\ pc = "loop"
    /\ IF idx < Len(split_files)
       THEN /\ idx' = idx + 1
            /\ parts_processed' = parts_processed + 1
            /\ pc' = "read"
       ELSE /\ UNCHANGED << idx, parts_processed >>
            /\ pc' = "save"
    /\ attempts' = <<>>
    /\ UNCHANGED << envVars, runVars, url, base_tmp, tmp_wavs, split_dir, cwd_files,
                    detected_lang, sample_text, split_files, total_parts, text_lines,
                    failed_parts, outVars, status, calls, outcomes >>

Outcome(kind, text) == [kind |-> kind, text |-> text]

\* mutant: the except branch forgets to record the name
RecordFailure_Forgets ==
    /\ failed_parts' = failed_parts
    /\ text_lines' = text_lines
    /\ pc' = "progress"

\* except Exception as e: failed_parts.append(part.name)
RecordFailure ==
    /\ failed_parts' = Append(failed_parts, split_files[idx])
    /\ text_lines' = text_lines
    /\ pc' = "progress"

\* text_lines.append(text)
RecordSuccess(text) ==
    /\ text_lines' = Append(text_lines, text)
    /\ failed_parts' = failed_parts
    /\ pc' = "progress"

\* mutant: the read is outside the try, a failed read ends the run
ReadPart_Unprotected ==
    /\ pc = "read"
    /\ \E ok \in BOOLEAN :
        IF ok
        THEN /\ pc' = "try_lang"
             /\ UNCHANGED << status, base_tmp, tmp_wavs, split_dir >>
        ELSE Abort("read_failed")
    /\ UNCHANGED << envVars, runVars, url, cwd_files, detected_lang, sample_text,
                    loopVars, outVars, histVars >>

\* with sr.AudioFile(str(part)) as src: audio_data = recognizer.record(src)
ReadPart ==
    /\ pc = "read"
    /\ \E ok \in BOOLEAN :
        IF ok
        THEN /\ pc' = "try_lang"
             /\ UNCHANGED << text_lines, failed_parts, outcomes >>
        ELSE /\ RecordFailure
             /\ outcomes' = Append(outcomes, Outcome("unreadable", <<>>))
    /\ UNCHANGED << envVars, runVars, url, base_tmp, tmp_wavs, split_dir, cwd_files,
                    detected_lang, sample_text, split_files, total_parts, idx,
                    parts_processed, outVars, status, calls, attempts >>

\* one recognize_google call of the chain: on success the text is appended,
\* on failure control goes to `onFail` ("fail": the exception reaches the outer except)
Attempt(hint, onFail) ==
    /\ \E ok \in BOOLEAN, t \in Texts :
        /\ attempts' = Append(attempts, Call("recognize", hint, ok,
                                             IF ok THEN t ELSE <<>>))
        /\ IF ok
           THEN /\ RecordSuccess(t)
                /\ outcomes' = Append(outcomes, Outcome("text", t))
           ELSE IF onFail = "fail"
           THEN /\ RecordFailure
                /\ outcomes' = Append(outcomes, Outcome("exhausted", <<>>))
           ELSE /\ pc' = onFail
                /\ UNCHANGED << text_lines, failed_parts, outcomes >>
    /\ UNCHANGED << envVars, runVars, url, base_tmp, tmp_wavs, split_dir, cwd_files,
                    detected_lang, sample_text, split_files, total_parts, idx,
                    parts_processed, outVars, status, calls >>

\* text = recognizer.recognize_google(audio_data, language=detected_lang)
TryDetected == pc = "try_lang" /\ Attempt(detected_lang, "try_none")
\* mutant: the chain skips the "ar" attempt
TryNoHint_SkipsAr == pc = "try_none" /\ Attempt(NoHint, "try_en")

\* text = recognizer.recognize_google(audio_data)
TryNoHint == pc = "try_none" /\ Attempt(NoHint, "try_ar")
\* mutant: a segment recognized with hint "ar" makes "ar" the language of the run
TryAr_AdoptsHint ==
    /\ pc = "try_ar"
    /\ \E ok \in BOOLEAN, t \in Texts :
        /\ attempts' = Append(attempts, Call("recognize", "ar", ok,
                                             IF ok THEN t ELSE <<>>))
        /\ IF ok
           THEN /\ RecordSuccess(t)
                /\ outcomes' = Append(outcomes, Outcome("text", t))
                /\ detected_lang' = "ar"
           ELSE /\ pc' = "try_en"
                /\ UNCHANGED << text_lines, failed_parts, outcomes, detected_lang >>
    /\ UNCHANGED << envVars, runVars, url, base_tmp, tmp_wavs, split_dir, cwd_files,
                    sample_text, split_files, total_parts, idx,
                    parts_processed, outVars, status, calls >>

\* text = recognizer.recognize_google(audio_data, language="ar")
TryAr == pc = "try_ar" /\ Attempt("ar", "try_en")
\* text = recognizer.recognize_google(audio_data, language="en"); except: raise e_final
TryEn == pc = "try_en" /\ Attempt("en", "fail")

\* percent = int((parts_processed / total_parts) * 100)
\* (the float product truncates to this quotient for the totals modelled)
Percent(done, total) == (done * 100) \div total

\* mutant: progress is updated on the success path only
ReportProgress_OnlyOnSuccess ==
    /\ pc = "progress"
    /\ IF outcomes[idx].kind = "text"
       THEN /\ progress_log' = Append(progress_log,
                                      [processed |-> parts_processed,
                                       total |-> total_parts,
                                       percent |-> Percent(parts_processed, total_parts)])
            /\ progress_bar' = Percent(parts_processed, total_parts)
       ELSE UNCHANGED << progress_log, progress_bar >>
    /\ pc' = "loop"
    /\ UNCHANGED << envVars, runVars, url, base_tmp, tmp_wavs, split_dir, cwd_files,
                    detected_lang, sample_text, loopVars, final_txt, shown_failed,
                    tmp_notice, status, histVars >>

\* percent = int((parts_processed / total_parts) * 100): a zero total raises
\* ZeroDivisionError, which nothing catches and which leaves the with block
\* progress_bar.progress(percent); time.sleep(...)
ReportProgress ==
    /\ pc = "progress"
    /\ IF total_parts = 0
       THEN /\ Abort("zero_division")
            /\ UNCHANGED << progress_log, progress_bar >>
       ELSE /\ progress_log' = Append(progress_log,
                                      [processed |-> parts_processed,
                                       total |-> total_parts,
                                       percent |-> Percent(parts_processed, total_parts)])
            /\ progress_bar' = Percent(parts_processed, total_parts)
            /\ pc' = "loop"
            /\ UNCHANGED << status, base_tmp, tmp_wavs, split_dir >>
    /\ UNCHANGED << envVars, runVars, url, cwd_files, detected_lang, sample_text,
                    loopVars, final_txt, shown_failed, tmp_notice, histVars >>

RECURSIVE FileText_NoBlankLine(_)
\* mutant: each text is followed by one newline only
FileText_NoBlankLine(lines) ==
    IF lines = <<>> THEN <<>>
    ELSE Head(lines) \o <<NL>> \o FileText_NoBlankLine(Tail(lines))

RECURSIVE FileText(_)
\* for line in text_lines: f.write(line + "\n\n")
FileText(lines) ==
    IF lines = <<>> THEN <<>>
    ELSE Head(lines) \o <<NL, NL>> \o FileText(Tail(lines))

\* mutant: no file is written when there is no text
SaveText_SkipsEmpty ==
    /\ pc = "save"
    /\ IF text_lines = <<>>
       THEN UNCHANGED << final_txt, cwd_files >>
       ELSE /\ final_txt' = FileText(text_lines)
            /\ cwd_files' = cwd_files \cup {"txt"}
    /\ pc' = "report"
    /\ UNCHANGED << envVars, runVars, url, base_tmp, tmp_wavs, split_dir, detected_lang,
                    sample_text, loopVars, shown_failed, progress_log, progress_bar,
                    tmp_notice, status, histVars >>

\* final_txt = cwd / f"{title_base}.txt"; open(final_txt, "w") ...
SaveText ==
    /\ pc = "save"
    /\ final_txt' = FileText(text_lines)
    /\ cwd_files' = cwd_files \cup {"txt"}
    /\ pc' = "report"
    /\ UNCHANGED << envVars, runVars, url, base_tmp, tmp_wavs, split_dir, detected_lang,
                    sample_text, loopVars, shown_failed, progress_log, progress_bar,
                    tmp_notice, status, histVars >>

\* if failed_parts: st.error(...), the list of names; else: st.success(...)
\* if auto_remove_tmp: log("will be deleted") else: st.info("kept in base_tmp")
\* ... progress_bar.progress(100); return  (leaving the with block)
Report ==
    /\ pc = "report"
    /\ IF failed_parts # <<>>
       THEN /\ status' = "some_failed"
            /\ shown_failed' = failed_parts
       ELSE /\ status' = "all_ok"
            /\ shown_failed' = shown_failed
    /\ tmp_notice' = (IF auto_remove_tmp THEN "will_be_deleted" ELSE "kept")
    /\ progress_bar' = 100
    /\ ExitWith
    /\ pc' = "done"
    /\ UNCHANGED << envVars, runVars, url, cwd_files, detected_lang, sample_text, loopVars,
                    final_txt, progress_log, histVars >>

Next ==
    \/ StartButton
    \/ CheckRequirements
    \/ Download
    \/ FindWav
    \/ SampleRecord
    \/ SampleTryNoHint
    \/ SampleTryAr
    \/ SampleDetect
    \/ Split
    \/ LoopNext
    \/ ReadPart
    \/ TryDetected
    \/ TryNoHint
    \/ TryAr
    \/ TryEn
    \/ ReportProgress
    \/ SaveText
    \/ Report

Spec == Init /\ [][Next]_vars

\* ============================================================ properties
LoopPcs == {"loop", "read", "try_lang", "try_none", "try_ar", "try_en", "progress"}
\* the for loop has been left by exhaustion of split_files
LoopEnded ==
    \/ pc \in {"save", "report"}
    \/ pc = "done" /\ status \in {"all_ok", "some_failed"}
\* the text artifact has been written
Saved ==
    \/ pc = "report"
    \/ pc = "done" /\ status \in {"all_ok", "some_failed"}

RECURSIVE TextsOf(_)
\* the texts of the segments that ended with a text, in segment order
TextsOf(outs) ==
    IF outs = <<>> THEN <<>>
    ELSE (IF Head(outs).kind = "text" THEN <<Head(outs).text>> ELSE <<>>)
         \o TextsOf(Tail(outs))

RECURSIVE FailedOf(_, _)
\* the names of the segments that ended without a text, in segment order
FailedOf(outs, names) ==
    IF outs = <<>> THEN <<>>
    ELSE (IF Head(outs).kind # "text" THEN <<Head(names)>> ELSE <<>>)
         \o FailedOf(Tail(outs), Tail(names))

Kinds(outs) == [i \in 1 .. Len(outs) |-> outs[i].kind]

\* C1: every segment processed so far has exactly one outcome: its text is in
\* text_lines or its name is in failed_parts, never both, never neither, both lists
\* in segment order; at the end of every iteration the two lengths add up to the
\* number of segments processed, and when the loop ends, to the number of segments.
C1_OneOutcomePerSegment ==
    /\ pc \in LoopPcs \/ LoopEnded =>
        /\ Len(outcomes) <= Len(split_files)
        /\ text_lines = TextsOf(outcomes)
        /\ failed_parts = FailedOf(outcomes, split_files)
    /\ pc \in {"progress", "loop"} =>
        /\ Len(outcomes) = parts_processed
        /\ Len(text_lines) + Len(failed_parts) = parts_processed
    /\ LoopEnded =>
        /\ Len(outcomes) = Len(split_files)
        /\ Len(text_lines) + Len(failed_parts) = Len(split_files)

\* a run of three segments ended: one with a text, one unreadable, one exhausted
C1_Witness ==
    /\ pc = "done"
    /\ Kinds(outcomes) = <<"text", "unreadable", "exhausted">>
    /\ Len(text_lines) = 1
    /\ Len(failed_parts) = 2

\* the order of the hints of the chain
Chain == <<detected_lang, NoHint, "ar", "en">>

\* C2: the recognition attempts for a segment are made with the hints
\* detected_lang, none, "ar", "en" in this order, each only after all earlier ones
\* failed, none after a success, whose text is the segment's outcome; at most four.
C2_FallbackChain ==
    /\ Len(attempts) <= 4
    /\ \A i \in 1 .. Len(attempts) :
        /\ attempts[i].hint = Chain[i]
        /\ i < Len(attempts) => ~attempts[i].ok
    /\ pc = "try_lang" => Len(attempts) = 0
    /\ pc = "try_none" => Len(attempts) = 1 /\ ~attempts[1].ok
    /\ pc = "try_ar" => Len(attempts) = 2 /\ ~attempts[2].ok
    /\ pc = "try_en" => Len(attempts) = 3 /\ ~attempts[3].ok
    /\ (attempts # <<>> /\ attempts[Len(attempts)].ok) =>
        /\ pc \in {"progress", "loop"}
        /\ Len(outcomes) = idx
        /\ outcomes[idx] = Outcome("text", attempts[Len(attempts)].out)
        /\ text_lines # <<>>
        /\ text_lines[Len(text_lines)] = attempts[Len(attempts)].out

\* the fourth attempt, with hint "en", succeeded after three failures
C2_Witness ==
    /\ detected_lang = "fr"
    /\ Len(attempts) = 4
    /\ attempts[4].ok
    /\ pc = "progress"

\* the whole chain failed for the current segment
Exhausted == Len(attempts) = 4 /\ ~attempts[4].ok

\* C3: when all four attempts of a segment fail its name is recorded in failed_parts
\* and the run goes on: nothing aborts, the loop can always take its next step, and
\* once the loop is left every segment has been processed and the text is saved.
C3_FailureDoesNotAbort ==
    /\ Exhausted =>
        /\ pc \in {"progress", "loop"}
        /\ failed_parts # <<>>
        /\ failed_parts[Len(failed_parts)] = split_files[idx]
    /\ \A k \in 1 .. Len(outcomes) :
        outcomes[k].kind = "exhausted" =>
            \E j \in 1 .. Len(failed_parts) : failed_parts[j] = split_files[k]
    /\ pc \in LoopPcs => status = Unset /\ ENABLED Next
    /\ pc = "save" => parts_processed = total_parts /\ Len(outcomes) = total_parts
    /\ (pc = "done" /\ outcomes # <<>>) =>
        /\ status \in {"all_ok", "some_failed"}
        /\ Len(outcomes) = total_parts
        /\ final_txt # Unset

\* the first segment exhausted its chain and the two after it were still processed
C3_Witness ==
    /\ pc = "done"
    /\ Len(outcomes) = 3
    /\ outcomes[1].kind = "exhausted"
    /\ outcomes[3].kind = "text"
    /\ final_txt # Unset

\* C4: over n segments progress is reported n times, once after each segment
\* (text or failure) and before the next one starts, with the processed count
\* 1, 2, ..., n and the total n.
C4_ProgressPerSegment ==
    /\ \A i \in 1 .. Len(progress_log) :
        /\ progress_log[i].processed = i
        /\ progress_log[i].total = Len(split_files)
    /\ pc \in {"read", "try_lang", "try_none", "try_ar", "try_en"} =>
        Len(progress_log) = idx - 1 /\ Len(outcomes) = idx - 1
    /\ pc = "progress" => Len(progress_log) = idx - 1 /\ Len(outcomes) = idx
    /\ pc = "loop" => Len(progress_log) = idx /\ Len(outcomes) = idx
    /\ LoopEnded => Len(progress_log) = Len(split_files)

\* three reports made for three segments, two of which failed
C4_Witness ==
    /\ pc = "save"
    /\ Len(progress_log) = 3
    /\ Len(failed_parts) = 2
    /\ progress_log[3].processed = 3

RECURSIVE Pieces(_, _)
\* str.split("\n\n"): the pieces of s between blank lines, cur being the piece read
Pieces(s, cur) ==
    IF s = <<>> THEN <<cur>>
    ELSE IF Len(s) >= 2 /\ s[1] = NL /\ s[2] = NL
    THEN <<cur>> \o Pieces(SubSeq(s, 3, Len(s)), <<>>)
    ELSE Pieces(Tail(s), Append(cur, Head(s)))

\* the paragraphs of a text file: its pieces, less the empty one after the last
\* blank line
Paragraphs(s) ==
    LET ps == Pieces(s, <<>>)
    IN  IF ps[Len(ps)] = <<>> THEN SubSeq(ps, 1, Len(ps) - 1) ELSE ps

\* C5: the saved text has exactly the texts of the segments that got one, in segment
\* order, one paragraph each, every paragraph followed by a blank line; the failed
\* list shown has exactly the names of the other segments in segment order.  When
\* every segment failed the (empty) text is still saved and the run ends with the
\* list of all names, not with a fatal error.
C5_FinalText ==
    /\ Saved =>
        /\ final_txt # Unset
        /\ "txt" \in cwd_files
        /\ Paragraphs(final_txt) = TextsOf(outcomes)
        /\ Pieces(final_txt, <<>>) = TextsOf(outcomes) \o << <<>> >>
    /\ (pc = "done" /\ Saved) =>
        /\ shown_failed = FailedOf(outcomes, split_files)
        /\ status = (IF shown_failed = <<>> THEN "all_ok" ELSE "some_failed")
        /\ (TextsOf(outcomes) = <<>>) =>
              final_txt = <<>> /\ shown_failed = split_files

\* segments 1 and 3 got a text, segment 2 exhausted its chain
C5_Witness ==
    /\ pc = "done"
    /\ Kinds(outcomes) = <<"text", "exhausted", "text">>
    /\ Len(Paragraphs(final_txt)) = 2
    /\ shown_failed = <<split_files[2]>>

\* the calls of `calls` made to operation op, in order
CallsTo(op) == SelectSeq(calls, LAMBDA c : c.op = op)

\* yt-dlp was run and exited non-zero (or could not be started)
DownloadNonZero == CallsTo("download") # <<>> /\ ~CallsTo("download")[1].ok
\* yt-dlp exited zero and left no .wav file
DownloadNoFile ==
    /\ CallsTo("download") # <<>>
    /\ CallsTo("download")[1].ok
    /\ CallsTo("download")[1].out = <<>>

\* C6: when yt-dlp exits non-zero, or exits zero and leaves no .wav, the run aborts:
\* the sampler, the splitter and the loop are never run, no segment exists, and
\* neither the audio nor the text is written to the output directory.
C6_DownloadFailureAborts ==
    /\ DownloadNonZero => pc = "done" /\ status = "download_failed"
    /\ DownloadNoFile => pc = "find_wav" \/ (pc = "done" /\ status = "no_wav")
    /\ (DownloadNonZero \/ DownloadNoFile) =>
        /\ Len(calls) = 1
        /\ detected_lang = Unset
        /\ split_dir = {}
        /\ split_files = <<>>
        /\ attempts = <<>>
        /\ outcomes = <<>>
        /\ progress_log = <<>>
        /\ cwd_files = {}
        /\ final_txt = Unset

\* yt-dlp exited zero without a .wav and the run has ended
C6_Witness ==
    /\ DownloadNoFile
    /\ pc = "done"
    /\ status = "no_wav"
    /\ ~base_tmp

\* ffmpeg was run to split and exited non-zero (or could not be started)
SplitNonZero == CallsTo("split") # <<>> /\ ~CallsTo("split")[1].ok

\* C7: when ffmpeg exits non-zero at the split, the run aborts before any segment is
\* transcribed and before the text is written, and the audio file moved to the
\* output directory is still there.
C7_SplitFailureAborts ==
    SplitNonZero =>
        /\ pc = "done"
        /\ status = "split_failed"
        /\ split_files = <<>>
        /\ attempts = <<>>
        /\ outcomes = <<>>
        /\ text_lines = <<>>
        /\ progress_log = <<>>
        /\ final_txt = Unset
        /\ "txt" \notin cwd_files
        /\ "wav" \in cwd_files

\* the split failed after a download that succeeded
C7_Witness ==
    /\ SplitNonZero
    /\ CallsTo("download")[1].ok
    /\ pc = "done"
    /\ "wav" \in cwd_files

SamplePcs == {"sample_record", "sample_try1", "sample_try2", "sample_detect"}
\* the language sampler has run to its end
Sampled == CallsTo("sample_record") # <<>> /\ pc \notin SamplePcs

\* the text the sampler got: that of the recognize call that succeeded, else ""
SampledText ==
    LET r == CallsTo("sample_recognize")
    IN  IF r # <<>> /\ r[Len(r)].ok THEN r[Len(r)].out ELSE <<>>

\* the language the sampler has to end with, from what the tools answered
ExpectedLang ==
    IF ~CallsTo("sample_record")[1].ok THEN "en"
    ELSE IF Strip(SampledText) = <<>> THEN "en"
    ELSE IF CallsTo("detect") # <<>> /\ CallsTo("detect")[1].ok
         THEN CallsTo("detect")[1].out[1]
         ELSE "en"

\* C8: whatever fails in the sampler (reading the sample, one or both recognize
\* calls, detect) the run is not aborted: the sampler can always take its next
\* step, it ends with detected_lang set ("en" on every failure path, detect's code
\* otherwise) and the next thing run is the split.
C8_DetectionNeverAborts ==
    /\ pc \in SamplePcs => status = Unset /\ ENABLED Next
    /\ Sampled =>
        /\ detected_lang = ExpectedLang
        /\ detected_lang \in Codes
        /\ pc = "split" \/ CallsTo("split") # <<>>
        /\ pc = "split" => status = Unset /\ ENABLED Split

\* detect() raised on a non-blank sample text and the run is at the split
C8_Witness ==
    /\ pc = "split"
    /\ CallsTo("detect") # <<>>
    /\ ~CallsTo("detect")[1].ok
    /\ detected_lang = "en"

\* C9: the sample is recognized first with no hint and a second time, with hint
\* "ar", only when the first call failed, and then exactly once; when the text got
\* is empty or blank (also when both calls failed) the language is "en" and detect
\* is not called.
C9_SamplerFallback ==
    LET r == CallsTo("sample_recognize") IN
    /\ Len(r) <= 2
    /\ Len(r) >= 1 => r[1].hint = NoHint
    /\ Len(r) = 2 => ~r[1].ok /\ r[2].hint = "ar"
    /\ (Len(r) = 1 /\ ~r[1].ok) => pc = "sample_try2"
    /\ (Sampled /\ CallsTo("sample_record")[1].ok) =>
        /\ Len(r) >= 1
        /\ sample_text = SampledText
        /\ Strip(SampledText) = <<>> =>
              detected_lang = "en" /\ CallsTo("detect") = <<>>
        /\ Strip(SampledText) # <<>> => Len(CallsTo("detect")) = 1

\* the retry with "ar" returned a blank text: "en", and detect was not called
C9_Witness ==
    /\ pc = "split"
    /\ Len(CallsTo("sample_recognize")) = 2
    /\ CallsTo("sample_recognize")[2].ok
    /\ SampledText = <<SP>>
    /\ CallsTo("detect") = <<>>
    /\ detected_lang = "en"

\* C10: one language code is in use for the whole loop: detected_lang does not
\* change once the sampler has ended, and the first recognize call of every segment
\* has it as its hint.
C10_OneLanguage ==
    /\ [][Sampled => detected_lang' = detected_lang]_vars
    /\ [](attempts # <<>> => attempts[1].hint = detected_lang /\ detected_lang = ExpectedLang)

\* the second segment's first attempt is made with "fr" after the first segment
\* got its text
C10_Witness ==
    /\ idx = 2
    /\ outcomes # <<>>
    /\ outcomes[1].kind = "text"
    /\ attempts # <<>>
    /\ attempts[1].hint = "fr"
    /\ detected_lang = "fr"

\* the stage a statement belongs to: 0 before the run, 1 acquire, 2 sample and
\* detect the language, 3 split, 4 the loop, 5 assemble, 6 the run has ended
Stage(p) ==
    CASE p \in {"idle", "check"} -> 0
      [] p \in {"download", "find_wav"} -> 1
      [] p \in SamplePcs -> 2
      [] p = "split" -> 3
      [] p \in LoopPcs -> 4
      [] p \in {"save", "report"} -> 5
      [] OTHER -> 6

\* the stage a tool call belongs to
OpStage(op) ==
    CASE op = "download" -> 1
      [] op \in {"sample_record", "sample_recognize", "detect"} -> 2
      [] OTHER -> 3

\* C11: the stages run in the order acquire, sample/detect, split, loop, assemble:
\* a step stays in its stage, goes to the next one or ends the run, so no stage
\* starts before the one before it has finished and none is run twice; the tools
\* are called in that order; segment i+1 is started only when segment i has its
\* outcome recorded (and its progress reported).
C11_StagesInOrder ==
    /\ [][\/ Stage(pc') = Stage(pc)
          \/ Stage(pc') = Stage(pc) + 1
          \/ pc' = "done"]_vars
    /\ [][idx' # idx =>
            /\ idx' = idx + 1
            /\ pc = "loop" /\ pc' = "read"
            /\ Len(outcomes) = idx
            /\ Len(progress_log) = idx]_vars
    /\ [](\A i, j \in 1 .. Len(calls) :
            i < j => OpStage(calls[i].op) <= OpStage(calls[j].op))
    /\ [](/\ Len(CallsTo("download")) <= 1
          /\ Len(CallsTo("sample_record")) <= 1
          /\ Len(CallsTo("split")) <= 1)
    /\ [](Stage(pc) \in 2 .. 5 => Len(CallsTo("download")) = 1)
    /\ [](Stage(pc) \in 3 .. 5 => Len(CallsTo("sample_record")) = 1)
    /\ [](Stage(pc) \in 4 .. 5 => Len(CallsTo("split")) = 1)
    /\ [](Stage(pc) \in 0 .. 3 => outcomes = <<>> /\ attempts = <<>> /\ idx = 0)
    /\ [](Stage(pc) \in 0 .. 4 => final_txt = Unset)

\* a run went through all five stages, with two segments
C11_Witness ==
    /\ pc = "done"
    /\ status = "all_ok"
    /\ Len(outcomes) = 2
    /\ Len(CallsTo("detect")) = 1
    /\ final_txt # Unset

\* C12: a run started with a URL that is empty once stripped ends with the "no URL"
\* error: the temporary directory is never created, no tool is called and no file
\* is created.
C12_EmptyUrlDoesNothing ==
    Strip(url_input) = <<>> =>
        /\ pc \in {"idle", "done"}
        /\ pc = "done" => status = "no_url" /\ url = <<>>
        /\ ~base_tmp
        /\ tmp_wavs = 0
        /\ split_dir = {}
        /\ cwd_files = {}
        /\ final_txt = Unset
        /\ calls = <<>>
        /\ proc = Unset
        /\ attempts = <<>>

\* the URL box held a blank and the run has ended, with every tool installed
C12_Witness ==
    /\ url_input = <<SP>>
    /\ bin_yt_dlp /\ bin_ffmpeg /\ libs_ok
    /\ pc = "done"
    /\ status = "no_url"

\* the run went through the with block (where the temporary directory is) to its end
RanAndEnded == pc = "done" /\ status \in {"all_ok", "some_failed"}

\* C13: the temporary directory exists from the start of the run; at the end of the
\* run it is removed when auto_remove_tmp is set and is still there when it is not.
C13_ScratchFollowsSetting ==
    /\ Stage(pc) \in 1 .. 5 => base_tmp
    /\ RanAndEnded => (base_tmp <=> ~auto_remove_tmp)

\* what the code does: the directory is removed at the end of every run, also when
\* the run has just said that it is kept
C13_ScratchAlwaysRemoved ==
    /\ Stage(pc) \in 1 .. 5 => base_tmp
    /\ RanAndEnded => ~base_tmp
    /\ tmp_notice = "kept" => ~auto_remove_tmp /\ ~base_tmp

\* ================================================= checks of the functions
\* The helper functions are checked one call at a time: the initial state holds the
\* function and its argument, the action applies the function.

\* the largest sequence number of a segment file looked at
MaxSeq == 1001
\* the sequence numbers looked at: around each change of the number of digits
SeqNums == (0 .. 2) \cup (9 .. 11) \cup (99 .. 101) \cup (998 .. MaxSeq)
\* two or three of the files the split leaves, by sequence number
SortInputs == { S \in SUBSET SeqNums : Cardinality(S) \in {2, 3} }

\* ---- safe_filename
\* a letter outside ASCII (the Arabic letter ain), which \w matches
AIN == "U+0639"
\* the characters file titles are made of here
NameChars == {"a", "7", "_", ".", "-", SP, TAB, "!", AIN}
\* the longest title looked at
MaxNameLen == 4
NameInputs == UNION { [1 .. n -> NameChars] : n \in 0 .. MaxNameLen }

\* \w of a str pattern: letters and digits of any script, and the underscore
IsWordChar(c) == c \in {"a", "7", "_", AIN}

\* the characters the class [^\w\-_\. ] does not match
Kept(c) == IsWordChar(c) \/ c \in {"-", "_", ".", SP}

\* re.sub(r"[^\w\-_\. ]", "_", s)
ReSub(s) == [i \in 1 .. Len(s) |-> IF Kept(s[i]) THEN s[i] ELSE "_"]

\* s.replace(" ", "_")
ReplaceSpaces(s) == [i \in 1 .. Len(s) |-> IF s[i] = SP THEN "_" ELSE s[i]]

RECURSIVE ReplacePairs(_)
\* s.replace("__", "_")
ReplacePairs(s) ==
    IF Len(s) >= 2 /\ s[1] = "_" /\ s[2] = "_"
    THEN <<"_">> \o ReplacePairs(SubSeq(s, 3, Len(s)))
    ELSE IF s = <<>> THEN <<>>
    ELSE <<Head(s)>> \o ReplacePairs(Tail(s))

\* mutant: runs of underscores are collapsed with one more replace()
SafeFilename_CollapsesOnce(s) == ReplacePairs(ReplaceSpaces(Strip(ReSub(s))))

\* mutant: strip() is left out
SafeFilename_NoStrip(s) == ReplaceSpaces(ReSub(s))

\* safe_filename
SafeFilename(s) == ReplaceSpaces(Strip(ReSub(s)))

\* ------------------------------------------------------- media prober
\* the characters of the outputs tried: digits, the dot, the sign, the line
\* end ffprobe prints after the value, and a letter (as in "N/A")
DurChars == {"0", "7", ".", "-", NL, "N"}
MaxOutLen == 4
DurTexts == UNION { [1 .. n -> DurChars] : n \in 0 .. MaxOutLen }

DigitChars == << "0", "1", "2", "3", "4", "5", "6", "7", "8", "9" >>
IsDigit(c) == \E d \in 1 .. Len(DigitChars) : DigitChars[d] = c
DigitVal(c) == (CHOOSE d \in 1 .. Len(DigitChars) : DigitChars[d] = c) - 1

RECURSIVE NatOf(_)
\* the number a sequence of digits denotes (0 for the empty one)
NatOf(ds) ==
    IF ds = <<>> THEN 0
    ELSE NatOf(SubSeq(ds, 1, Len(ds) - 1)) * Len(DigitChars) + DigitVal(ds[Len(ds)])

RECURSIVE Pow10(_)
Pow10(n) == IF n = 0 THEN 1 ELSE Len(DigitChars) * Pow10(n - 1)

\* a literal without its sign
Unsigned(s) == IF s # <<>> /\ Head(s) \in {"-", "+"} THEN Tail(s) ELSE s

\* the positions of the dots in a literal
DotsOf(u) == { i \in 1 .. Len(u) : u[i] = "." }

\* float(s) does not raise ValueError: an optional sign, then digits with at
\* most one dot and at least one digit (of float's grammar, the part the
\* characters of DurChars can spell)
IsFloatLiteral(s) ==
    LET u == Unsigned(s) IN
    /\ \A i \in 1 .. Len(u) : IsDigit(u[i]) \/ u[i] = "."
    /\ Cardinality(DotsOf(u)) <= 1
    /\ \E i \in 1 .. Len(u) : IsDigit(u[i])

\* the value of float(s), counted in units of 10^-MaxOutLen
FloatOf(s) ==
    LET u    == Unsigned(s)
        d    == IF DotsOf(u) = {} THEN Len(u) + 1 ELSE CHOOSE i \in DotsOf(u) : TRUE
        int  == SubSeq(u, 1, d - 1)
        frac == SubSeq(u, d + 1, Len(u))
        mag  == NatOf(int) * Pow10(MaxOutLen) + NatOf(frac) * Pow10(MaxOutLen - Len(frac))
    IN  IF s # <<>> /\ Head(s) = "-" THEN 0 - mag ELSE mag

\* try: return float(out.strip()) except Exception: return 0.0
FloatOrZero(out) == IF IsFloatLiteral(Strip(out)) THEN FloatOf(Strip(out)) ELSE 0

\* mutant: the output is parsed whatever the exit code
GetDurationSeconds_NoRcCheck(ffprobe, o) ==
    IF ~ffprobe
    THEN [val |-> 0, invoked |-> FALSE]
    ELSE [val |-> FloatOrZero(RunResult(o).out), invoked |-> TRUE]

\* get_duration_seconds, with bin_ffprobe and what running ffprobe does;
\* invoked tells whether run_cmd_capture was called
GetDurationSeconds(ffprobe, o) ==
    IF ~ffprobe
    THEN [val |-> 0, invoked |-> FALSE]
    ELSE LET r == RunResult(o) IN
         [val |-> IF r.rc = 0 THEN FloatOrZero(r.out) ELSE 0, invoked |-> TRUE]

\* what running ffprobe can do
DurOutcomes ==
    { [raised |-> FALSE, code |-> c, stdout |-> t, stderr |-> <<>>, msg |-> <<>>] :
          c \in {0, 1}, t \in DurTexts }
    \cup { [raised |-> TRUE, code |-> 0, stdout |-> <<>>, stderr |-> <<>>, msg |-> NotFound] }

DurInputs == { [ffprobe |-> b, proc |-> o] : b \in BOOLEAN, o \in DurOutcomes }

\* the arguments of the function checks
FnInputs(f) ==
    CASE f = "sorted" -> SortInputs
      [] f = "safe_filename" -> NameInputs
      [] f = "get_duration_seconds" -> DurInputs
      [] OTHER -> {}

FnNames == {"sorted", "safe_filename", "get_duration_seconds"}

FnInit ==
    /\ RunInit
    /\ url_input = <<>>
    /\ bin_yt_dlp /\ bin_ffmpeg /\ libs_ok /\ auto_remove_tmp
    /\ fn_name \in FnNames
    /\ fn_arg \in FnInputs(fn_name)
    /\ fn_res = NotApplied

runStateVars ==
    << pc, url_input, url, bin_yt_dlp, bin_ffmpeg, libs_ok, auto_remove_tmp, base_tmp,
       tmp_wavs, split_dir, cwd_files, detected_lang, sample_text, loopVars, outVars,
       status, runVars, histVars >>

\* split_files = sorted(split_dir.glob("*.wav")), for the files numbered fn_arg
ApplySorted ==
    /\ fn_name = "sorted"
    /\ ~fn_res.done
    /\ fn_res' = Result(SortedNames({ PartName(k) : k \in fn_arg }))
    /\ UNCHANGED << fn_name, fn_arg, runStateVars >>

\* safe_filename(fn_arg)
ApplySafeFilename ==
    /\ fn_name = "safe_filename"
    /\ ~fn_res.done
    /\ fn_res' = Result(SafeFilename(fn_arg))
    /\ UNCHANGED << fn_name, fn_arg, runStateVars >>

\* get_duration_seconds(file_path), with fn_arg.ffprobe as bin_ffprobe
ApplyGetDuration ==
    /\ fn_name = "get_duration_seconds"
    /\ ~fn_res.done
    /\ fn_res' = Result(GetDurationSeconds(fn_arg.ffprobe, fn_arg.proc))
    /\ UNCHANGED << fn_name, fn_arg, runStateVars >>

FnNext ==
    \/ ApplySorted
    \/ ApplySafeFilename
    \/ ApplyGetDuration

FnSpec == FnInit /\ [][FnNext]_vars

RECURSIVE Ascending(_)
\* the elements of a set of numbers in increasing order
Ascending(S) ==
    IF S = {} THEN <<>>
    ELSE LET m == CHOOSE x \in S : \A y \in S : x <= y
         IN  <<m>> \o Ascending(S \ {m})

\* C14: whatever the number of segments, sorting the file names part_%03d.wav puts
\* the segments in the order of their sequence numbers (any two or three of them
\* come out in that order).
C14_SortedIsTemporal ==
    (fn_name = "sorted" /\ fn_res.done) =>
        fn_res.val = [i \in 1 .. Cardinality(fn_arg) |-> PartName(Ascending(fn_arg)[i])]

\* safe_filename has been applied to fn_arg
Sanitized == fn_name = "safe_filename" /\ fn_res.done

\* C15: safe_filename applied to its own result gives that result again.
C15_SanitizeIdempotent ==
    Sanitized => SafeFilename(fn_res.val) = fn_res.val

\* a title with a space and a character that is replaced
C15_Witness ==
    /\ Sanitized
    /\ fn_arg = <<SP, "a", SP, "!">>
    /\ fn_res.val = <<"a", "_", "_">>

\* the characters of [A-Za-z0-9_.-] among NameChars
IsAsciiNameChar(c) == c \in {"a", "7", "_", ".", "-"}

\* s with the spaces at its two ends removed
RECURSIVE TrimSpaces(_)
TrimSpaces(s) ==
    IF s = <<>> THEN s
    ELSE IF Head(s) = SP THEN TrimSpaces(Tail(s))
    ELSE IF s[Len(s)] = SP THEN TrimSpaces(SubSeq(s, 1, Len(s) - 1))
    ELSE s

\* the number of maximal runs of spaces of s
SpaceRuns(s) ==
    Cardinality({ i \in 1 .. Len(s) : s[i] = SP /\ (i = 1 \/ s[i - 1] # SP) })

\* C16 as claimed: the result has no character outside [A-Za-z0-9_.-], hence no
\* whitespace, and a run of spaces gives one underscore (the result is as long as
\* the trimmed title with each run of spaces counted once).
C16_OnlyAsciiNameChars ==
    Sanitized =>
        /\ \A i \in 1 .. Len(fn_res.val) : IsAsciiNameChar(fn_res.val[i])
        /\ LET t == TrimSpaces(fn_arg)
           IN  Len(fn_res.val) =
                 Len(t) - Cardinality({ i \in 1 .. Len(t) : t[i] = SP }) + SpaceRuns(t)

\* C16 as amended: the result has only word characters (letters and digits of any
\* script, the underscore), dots and dashes, and no whitespace: it is the title
\* without the spaces at its ends, with every space and every other character that
\* is not a word character, a dot or a dash replaced by one underscore each.
C16_OnlyWordDotDash ==
    Sanitized =>
        LET t == TrimSpaces(fn_arg) IN
        /\ \A i \in 1 .. Len(fn_res.val) :
              /\ IsWordChar(fn_res.val[i]) \/ fn_res.val[i] \in {".", "-"}
              /\ ~IsSpace(fn_res.val[i])
        /\ Len(fn_res.val) = Len(t)
        /\ \A i \in 1 .. Len(t) :
              fn_res.val[i] = (IF IsWordChar(t[i]) \/ t[i] \in {".", "-"} THEN t[i] ELSE "_")

\* a title with a non-ASCII letter, two spaces in a row and a character replaced
C16_Witness ==
    /\ Sanitized
    /\ fn_arg = <<AIN, SP, SP, "!">>
    /\ fn_res.val = <<AIN, "_", "_", "_">>


\* ------------------------------------------------------------------ C17
\* the tool whose run is held in proc and run_result
LastTool == IF CallsTo("split") # <<>> THEN "split" ELSE "download"

\* the message of the fatal abort after a failed run of the tool
FatalStatus(tool) == IF tool = "split" THEN "split_failed" ELSE "download_failed"

\* the last run failed to start, or exited non-zero
LastRunFailed == calls # <<>> /\ (proc.raised \/ proc.code # 0)

\* C17: the process runner always returns a triple: for a finished command its
\* exit code with the captured stdout and stderr (a missing stream as ""),
\* for a command that could not be started the code 1, stdout "" and the
\* exception's message as stderr; and after a run of the download or the
\* splitting tool that could not be started the pipeline is on the same
\* fatal-abort path as after a non-zero exit: it has ended with that tool's
\* failure message and the scratch directory is gone.
C17_RunnerNeverRaises ==
    calls # <<>> =>
        /\ run_result =
              IF proc.raised
              THEN [rc |-> 1, out |-> <<>>, err |-> proc.msg]
              ELSE [rc |-> proc.code,
                    out |-> IF proc.stdout = NoneVal THEN <<>> ELSE proc.stdout,
                    err |-> IF proc.stderr = NoneVal THEN <<>> ELSE proc.stderr]
        /\ LastRunFailed =>
              /\ pc = "done"
              /\ status = FatalStatus(LastTool)
              /\ ~base_tmp
              /\ ~Saved

\* the splitting tool could not be started, and the run has aborted
C17_Witness ==
    /\ calls # <<>>
    /\ proc.raised
    /\ LastTool = "split"
    /\ run_result = [rc |-> 1, out |-> <<>>, err |-> NotFound]
    /\ status = "split_failed"


\* ------------------------------------------------------------------ C18
Probed == fn_name = "get_duration_seconds" /\ fn_res.done

\* ffprobe exited zero and printed a number
ProbeParseable ==
    /\ ~fn_arg.proc.raised
    /\ fn_arg.proc.code = 0
    /\ IsFloatLiteral(Strip(fn_arg.proc.stdout))

\* C18: the media prober always returns a value; when ffprobe is absent it
\* returns 0.0 and does not run it; when ffprobe cannot be started, exits
\* non-zero, or prints something that is not a number it returns 0.0; and it
\* returns the number printed exactly when ffprobe is present, exits zero
\* and prints a number.
C18_ProberReturnsZeroOnFailure ==
    Probed =>
        /\ fn_res.val.invoked = fn_arg.ffprobe
        /\ ~fn_arg.ffprobe => fn_res.val.val = 0
        /\ fn_arg.proc.raised => fn_res.val.val = 0
        /\ fn_arg.proc.code # 0 => fn_res.val.val = 0
        /\ ~IsFloatLiteral(Strip(fn_arg.proc.stdout)) => fn_res.val.val = 0
        /\ (fn_arg.ffprobe /\ ProbeParseable) =>
               fn_res.val.val = FloatOf(Strip(fn_arg.proc.stdout))
        /\ fn_res.val.val # 0 => fn_arg.ffprobe /\ ProbeParseable

\* ffprobe printed "7.7" and a line end with exit 0: the duration is 7.7
C18_Witness ==
    /\ Probed
    /\ fn_arg.ffprobe
    /\ fn_arg.proc.code = 0
    /\ fn_arg.proc.stdout = << "7", ".", "7", NL >>
    /\ fn_res.val = [val |-> 77 * Pow10(MaxOutLen - 1), invoked |-> TRUE]


\* ------------------------------------------------------------------ C19
\* the splitting tool exited zero and left no segment file
EmptySplit ==
    /\ CallsTo("split") # <<>>
    /\ CallsTo("split")[1].ok
    /\ split_files = <<>>

\* C19: after a split that exits zero and leaves no segment file the loop
\* body is never entered (no segment is read, no recognition is attempted, no
\* percentage is computed, so nothing divides by the zero total), the run
\* raises nothing, the text file is written empty, the failed list is empty
\* and the run ends reported as fully successful.
C19_EmptySplitCompletes ==
    EmptySplit =>
        /\ total_parts = 0
        /\ pc \in {"loop", "save", "report", "done"}
        /\ idx = 0 /\ parts_processed = 0
        /\ outcomes = <<>> /\ attempts = <<>>
        /\ progress_log = <<>>
        /\ text_lines = <<>> /\ failed_parts = <<>>
        /\ status # "zero_division"
        /\ ENABLED Next \/ pc = "done"
        /\ Saved => ("txt" \in cwd_files /\ final_txt = <<>>)
        /\ pc = "done" => (status = "all_ok" /\ shown_failed = <<>> /\ Saved)

\* a run whose split left no file has ended, reported as fully successful
C19_Witness ==
    /\ EmptySplit
    /\ pc = "done"
    /\ status = "all_ok"
    /\ "txt" \in cwd_files
    /\ progress_log = <<>>


\* ------------------------------------------------------------------ C20
\* the name of segment k is in failed_parts
InFailed(k) == \E j \in 1 .. Len(failed_parts) : failed_parts[j] = split_files[k]

\* the audio of segment k could not be read
Unreadable(k) == outcomes[k].kind = "unreadable"

\* all four recognition attempts of the current segment were made and failed
AllFourFailed == Len(attempts) = 4 /\ \A i \in 1 .. 4 : ~attempts[i].ok

\* C20: a segment whose audio cannot be read is recorded as failed without
\* any recognition attempt, its progress report is still made and the loop
\* goes on to the next segment and to the end of the run; a segment is in the
\* failed list exactly when its audio could not be read or all four of its
\* recognition attempts failed.
C20_UnreadableSegmentFails ==
    /\ (pc \in {"progress", "loop"} /\ idx > 0) =>
        /\ Unreadable(idx) => (attempts = <<>> /\ InFailed(idx))
        /\ attempts = <<>> => Unreadable(idx)
        /\ InFailed(idx) <=> (Unreadable(idx) \/ AllFourFailed)
    /\ \A k \in 1 .. Len(outcomes) :
        InFailed(k) <=> outcomes[k].kind \in {"unreadable", "exhausted"}
    /\ \A k \in (Len(outcomes) + 1) .. Len(split_files) : ~InFailed(k)
    /\ (pc = "progress" /\ Unreadable(idx)) =>
        /\ ENABLED ReportProgress
        /\ Len(progress_log) = idx - 1
        /\ status = Unset
    /\ (pc = "loop" /\ idx > 0 /\ Unreadable(idx)) =>
        /\ Len(progress_log) = idx
        /\ progress_log[idx].processed = idx
        /\ ENABLED LoopNext
        /\ status = Unset
    /\ (pc = "done" /\ CallsTo("split") # <<>> /\ CallsTo("split")[1].ok) =>
        /\ Len(outcomes) = total_parts
        /\ Len(progress_log) = total_parts
        /\ status \in {"all_ok", "some_failed"}

\* the first segment could not be read, the second got a text, and the run ended
C20_Witness ==
    /\ pc = "done"
    /\ Len(outcomes) >= 2
    /\ outcomes[1].kind = "unreadable"
    /\ outcomes[2].kind = "text"
    /\ failed_parts = << split_files[1] >>
    /\ Len(progress_log) = Len(outcomes)

====
